---------------------------- MODULE Spec2Model ----------------------------
(***************************************************************************)
(* A model of the tokenizer component (src/src/lib.rs) and of its BPE      *)
(* codec (src/src/tiktoken.rs): the vocabulary loader, CoreBPE             *)
(* construction, the byte-pair merge engine, encode / decode, the          *)
(* unstable-suffix resolver and the host's name -> tokenizer registry.     *)
(*                                                                         *)
(* Bytes are numbers.  The byte universe of the model is the six bytes of  *)
(* the characters LF, SPACE, '<', 'e' and U+00E9 (two bytes in UTF-8), so  *)
(* "every single-byte value" means every byte of ByteUniverse.  Rust       *)
(* indices are 0-based and the model keeps them: At and Slice translate.   *)
(* A call either returns a value, returns Err(String), or panics; the      *)
(* three outcomes are the records Ok(v), Err(msg) and Panic.               *)
(***************************************************************************)
EXTENDS Integers, Sequences, FiniteSets, TLC

\* ------------------------------------------------------------------ bounds
MaxChars == 3      \* characters (or special-token literals) in a text
MaxPiece == 3      \* bytes in a piece handed to the merge engine directly
MaxTokens == 2     \* ranks in a rank sequence handed to decode directly
HostMaxChars == 2  \* characters in a text sent through the host interface

\* ----------------------------------------------------------- program values
\* u32::MAX, the merge engine's "no rank" sentinel.  TLC's integers are 32-bit
\* signed, so the model uses the largest value it has: the code only needs it
\* to be greater than every rank of the vocabulary.
RANK_MAX == 2147483647

\* The characters of the model's texts (code points) and the bytes of their
\* UTF-8 encodings; U+00E9 is the one character of more than one byte.
Ch == [lf |-> 10, cr |-> 13, tab |-> 9, space |-> 32, lt |-> 60, e |-> 101,
       eacute |-> 233]
EAcuteBytes == <<195, 169>>

ByteUniverse == {Ch.lf, Ch.space, Ch.lt, Ch.e, EAcuteBytes[1], EAcuteBytes[2]}

Ok(v) == [kind |-> "ok", val |-> v]
Err(m) == [kind |-> "err", msg |-> m]
Panic == [kind |-> "panic"]
IsOk(r) == r.kind = "ok"

\* `let x = v; body`: v is computed once and body reads the value.
Let(v, Body(_)) == CHOOSE r \in {Body(x) : x \in {v}} : TRUE

\* s[i] and s[a..b] with Rust's 0-based indices.
At(s, i) == s[i + 1]
Slice(s, a, b) == SubSeq(s, a + 1, b)

RECURSIVE Concat(_)
Concat(ss) == IF ss = <<>> THEN <<>> ELSE Head(ss) \o Concat(Tail(ss))

StartsWith(s, p) == Len(p) <= Len(s) /\ SubSeq(s, 1, Len(p)) = p

\* Ord for [u8]: lexicographic, a proper prefix first.
RECURSIVE BytesLess(_, _)
BytesLess(x, y) ==
    IF y = <<>> THEN FALSE
    ELSE IF x = <<>> THEN TRUE
    ELSE IF Head(x) # Head(y) THEN Head(x) < Head(y)
    ELSE BytesLess(Tail(x), Tail(y))

\* ------------------------------------------------------- vocabulary loader
\* A line of the vocabulary blob: blank, without a space, or "<l> <r>" where
\* the base64 field decodes to bytes (or does not) and the rank field parses
\* as a u32 (or does not).
BlankLine == [line |-> "blank"]
NoSpaceLine == [line |-> "nospace"]
Rec(tok, rank) == [line |-> "rec", b64ok |-> TRUE, tok |-> tok, rankok |-> TRUE, rank |-> rank]
BadB64Rec(rank) == [line |-> "rec", b64ok |-> FALSE, tok |-> <<>>, rankok |-> TRUE, rank |-> rank]
BadRankRec(tok) == [line |-> "rec", b64ok |-> TRUE, tok |-> tok, rankok |-> FALSE, rank |-> 0]

\* HashMap::insert: a later key replaces an earlier one.
Insert(map, k, v) == [x \in DOMAIN map \cup {k} |-> IF x = k THEN v ELSE map[x]]

EmptyMap == [x \in {} |-> 0]

RECURSIVE LoadLines(_, _)
LoadLines(lines, tokens) ==
    IF lines = <<>> THEN Ok(tokens)
    ELSE LET l == Head(lines) IN
         IF l.line = "blank" THEN LoadLines(Tail(lines), tokens)
         ELSE IF l.line = "nospace" THEN Err("Invalid BPE")
         ELSE IF ~l.b64ok THEN Err("base64")
         ELSE IF ~l.rankok THEN Err("parse u32")
         ELSE LoadLines(Tail(lines), Insert(tokens, l.tok, l.rank))

load_bpe(bpe) == LoadLines(bpe, EmptyMap)

\* ------------------------------------------------------------ merge engine
\* get_rank! that forgets to skip over parts[start_idx + 1].
GetRankNoSkip(piece, ranks, parts, start_idx, skip) ==
    IF start_idx + 2 < Len(parts)
    THEN LET key == Slice(piece, At(parts, start_idx)[1], At(parts, start_idx + 2)[1])
         IN IF key \in DOMAIN ranks THEN {ranks[key]} ELSE {}
    ELSE {}

\* get_rank!(start_idx, skip): the rank of the bytes from parts[start_idx] to
\* parts[start_idx + skip + 2], as an Option: {} or {rank}.
GetRank(piece, ranks, parts, start_idx, skip) ==
    IF start_idx + skip + 2 < Len(parts)
    THEN LET key == Slice(piece, At(parts, start_idx)[1], At(parts, start_idx + skip + 2)[1])
         IN IF key \in DOMAIN ranks THEN {ranks[key]} ELSE {}
    ELSE {}

UnwrapOr(opt, d) == IF opt = {} THEN d ELSE CHOOSE r \in opt : TRUE

\* parts after the first loop: (i, u32::MAX) for i in 0..=len, then the rank of
\* each pair of bytes on its left byte.
InitParts(piece, ranks) ==
    LET fresh == [i \in 1..(Len(piece) + 1) |-> <<i - 1, RANK_MAX>>]
    IN [i \in 1..(Len(piece) + 1) |->
          IF i - 1 < Len(fresh) - 2 /\ GetRank(piece, ranks, fresh, i - 1, 0) # {}
          THEN <<i - 1, UnwrapOr(GetRank(piece, ranks, fresh, i - 1, 0), RANK_MAX)>>
          ELSE fresh[i]]

\* ScanMin replacing min on an equal rank too: the last smallest rank wins.
RECURSIVE ScanMinLast(_, _, _)
ScanMinLast(parts, i, min) ==
    IF i >= Len(parts) - 1 THEN min
    ELSE IF At(parts, i)[2] <= min[1] THEN ScanMinLast(parts, i + 1, <<At(parts, i)[2], i>>)
    ELSE ScanMinLast(parts, i + 1, min)

\* The scan for the smallest rank over parts[..len-1]: the first strictly
\* smaller rank wins.  min is (rank, index).
RECURSIVE ScanMin(_, _, _)
ScanMin(parts, i, min) ==
    IF i >= Len(parts) - 1 THEN min
    ELSE IF At(parts, i)[2] < min[1] THEN ScanMin(parts, i + 1, <<At(parts, i)[2], i>>)
    ELSE ScanMin(parts, i + 1, min)

MinRank(parts) == ScanMin(parts, 0, <<RANK_MAX, 0>>)

RemoveAt(s, i) == SubSeq(s, 1, i) \o SubSeq(s, i + 2, Len(s))

\* MergeAt without parts.remove(i + 1).
MergeAtKeepingPart(piece, ranks, parts, i) ==
    [parts EXCEPT ![i + 1] =
        <<@[1], UnwrapOr(GetRank(piece, ranks, parts, i, 1), RANK_MAX)>>]

\* One successful iteration: re-rank parts[i] and parts[i-1] skipping over
\* parts[i+1], then remove parts[i+1].
MergeAt(piece, ranks, parts, i) ==
    LET p1 == [parts EXCEPT ![i + 1] =
                 <<@[1], UnwrapOr(GetRank(piece, ranks, parts, i, 1), RANK_MAX)>>]
        p2 == IF i > 0
              THEN [p1 EXCEPT ![i] =
                      <<@[1], UnwrapOr(GetRank(piece, ranks, p1, i - 1, 1), RANK_MAX)>>]
              ELSE p1
    IN RemoveAt(p2, i + 1)

CanMerge(parts) == Len(parts) # 1 /\ MinRank(parts)[1] # RANK_MAX

RECURSIVE MergeLoop(_, _, _)
MergeLoop(piece, ranks, parts) ==
    IF CanMerge(parts)
    THEN Let(MergeAt(piece, ranks, parts, MinRank(parts)[2]), LAMBDA merged :
           MergeLoop(piece, ranks, merged))
    ELSE parts

\* The ranges parts[i].0..parts[i+1].0, in order.
PartRanges(parts) == [i \in 1..(Len(parts) - 1) |-> <<parts[i][1], parts[i + 1][1]>>]

\* MergeOutput with f = |p| ranks.get(..): a part without a rank is left out.
MergeOutputSkipping(piece, ranks, parts) ==
    LET rs == PartRanges(parts)
        known == SelectSeq(rs, LAMBDA r : Slice(piece, r[1], r[2]) \in DOMAIN ranks)
    IN Ok([i \in DOMAIN known |-> ranks[Slice(piece, known[i][1], known[i][2])]])

\* out.push(f(range)) with f = |p| ranks[&piece[p.start..p.end]]: indexing a
\* HashMap with an absent key panics.
MergeOutput(piece, ranks, parts) ==
    LET rs == PartRanges(parts)
    IN IF \A i \in DOMAIN rs : Slice(piece, rs[i][1], rs[i][2]) \in DOMAIN ranks
       THEN Ok([i \in DOMAIN rs |-> ranks[Slice(piece, rs[i][1], rs[i][2])]])
       ELSE Panic

byte_pair_merge(piece, ranks) ==
    Let(InitParts(piece, ranks), LAMBDA ranked :
      Let(MergeLoop(piece, ranks, ranked), LAMBDA merged :
        MergeOutput(piece, ranks, merged)))

\* An empty piece makes parts.len() - 2 underflow in _byte_pair_merge: a panic
\* where overflow is checked; no caller in this crate passes one.
byte_pair_encode(piece, ranks) ==
    IF Len(piece) = 1
    THEN (IF piece \in DOMAIN ranks THEN Ok(<<ranks[piece]>>) ELSE Panic)
    ELSE IF Len(piece) = 0 THEN Panic
    ELSE byte_pair_merge(piece, ranks)


\* ------------------------------------------------------------ text and UTF-8
\* A text (&str) is a sequence of characters; as_bytes() is its UTF-8.
Utf8(c) == IF c = Ch.eacute THEN EAcuteBytes ELSE <<c>>

AsBytes(t) == Concat([i \in DOMAIN t |-> Utf8(t[i])])

\* std::str::from_utf8 over the byte universe: {} for Err, {text} for Ok.
RECURSIVE FromUtf8(_)
FromUtf8(b) ==
    IF b = <<>> THEN {<<>>}
    ELSE IF Head(b) = EAcuteBytes[1]
         THEN (IF Len(b) >= 2 /\ b[2] = EAcuteBytes[2]
               THEN {<<Ch.eacute>> \o t : t \in FromUtf8(SubSeq(b, 3, Len(b)))}
               ELSE {})
    ELSE IF Head(b) = EAcuteBytes[2] THEN {}
    ELSE {<<Head(b)>> \o t : t \in FromUtf8(Tail(b))}

\* bstr::decode_last_utf8: (the last character or None, bytes consumed); an
\* invalid or incomplete tail consumes one byte of the universe's sequences.
DecodeLastUtf8(b) ==
    IF b = <<>> THEN [ch |-> {}, size |-> 0]
    ELSE LET n == Len(b) IN
         IF b[n] = EAcuteBytes[2]
         THEN (IF n >= 2 /\ b[n - 1] = EAcuteBytes[1]
               THEN [ch |-> {Ch.eacute}, size |-> 2]
               ELSE [ch |-> {}, size |-> 1])
         ELSE IF b[n] = EAcuteBytes[1] THEN [ch |-> {}, size |-> 1]
         ELSE [ch |-> {b[n]}, size |-> 1]

\* ------------------------------------------------- the segmentation pattern
\* The pattern of the crate's tests (cl100k_base), matched as fancy_regex
\* does: alternatives in order, greedy quantifiers, backtracking.
IsLetter(c) == c \in {Ch.e, Ch.eacute}
IsNumber(c) == FALSE
IsSpace(c) == c \in {Ch.lf, Ch.cr, Ch.tab, Ch.space}
IsNewline(c) == c \in {Ch.lf, Ch.cr}
IsPunct(c) == ~IsSpace(c) /\ ~IsLetter(c) /\ ~IsNumber(c)

\* The end of the run of characters satisfying P that starts at p.
RunEnd(t, p, P(_)) ==
    LET stops == {q \in p..(Len(t) - 1) : ~P(At(t, q))}
    IN IF stops = {} THEN (IF p > Len(t) THEN p ELSE Len(t))
       ELSE CHOOSE q \in stops : \A r \in stops : q <= r

\* Each alternative at position p: {} or {end of the match}.
\* (?i:'s|'t|'re|'ve|'m|'ll|'d): no text of the model holds an apostrophe.
AltContraction(t, p) == {}

\* [^\r\n\p{L}\p{N}]?\p{L}+
AltLetters(t, p) ==
    IF p + 1 < Len(t) /\ ~IsNewline(At(t, p)) /\ ~IsLetter(At(t, p))
       /\ ~IsNumber(At(t, p)) /\ IsLetter(At(t, p + 1))
    THEN {RunEnd(t, p + 1, IsLetter)}
    ELSE IF p < Len(t) /\ IsLetter(At(t, p)) THEN {RunEnd(t, p, IsLetter)}
    ELSE {}

\* \p{N}{1,3}
AltNumbers(t, p) ==
    IF p < Len(t) /\ IsNumber(At(t, p))
    THEN LET e == RunEnd(t, p, IsNumber) IN {IF e > p + 3 THEN p + 3 ELSE e}
    ELSE {}

\*  ?[^\s\p{L}\p{N}]+[\r\n]*
AltPunct(t, p) ==
    IF p + 1 < Len(t) /\ At(t, p) = Ch.space /\ IsPunct(At(t, p + 1))
    THEN {RunEnd(t, RunEnd(t, p + 1, IsPunct), IsNewline)}
    ELSE IF p < Len(t) /\ IsPunct(At(t, p))
    THEN {RunEnd(t, RunEnd(t, p, IsPunct), IsNewline)}
    ELSE {}

\* \s*[\r\n]+ : \s* takes the whole run of whitespace and gives back until a
\* newline follows, so the match ends after the run's last newline.
AltNewlines(t, p) ==
    LET w == RunEnd(t, p, IsSpace)
        nl == {q \in p..(w - 1) : IsNewline(At(t, q))}
    IN IF nl = {} THEN {} ELSE {(CHOOSE q \in nl : \A r \in nl : r <= q) + 1}

\* \s+(?!\S) : the whole run at the end of the text, else the run less its
\* last character.
AltSpaceNotBeforeNonSpace(t, p) ==
    LET w == RunEnd(t, p, IsSpace)
    IN IF w > p /\ w = Len(t) THEN {w}
       ELSE IF w - 1 > p THEN {w - 1}
       ELSE {}

\* \s+
AltSpaces(t, p) ==
    LET w == RunEnd(t, p, IsSpace) IN IF w > p THEN {w} ELSE {}

\* The first alternative that matches at p decides the match.
MatchAt(t, p) ==
    LET alts == <<AltContraction(t, p), AltLetters(t, p), AltNumbers(t, p), AltPunct(t, p),
                  AltNewlines(t, p), AltSpaceNotBeforeNonSpace(t, p), AltSpaces(t, p)>>
    IN Let(alts, LAMBDA a :
         IF \A i \in DOMAIN a : a[i] = {} THEN {}
         ELSE a[CHOOSE i \in DOMAIN a : a[i] # {} /\ \A j \in 1..(i - 1) : a[j] = {}])

\* regex.find_iter(t): the pieces, left to right; a position where nothing
\* matches is skipped.
RECURSIVE FindIterFrom(_, _)
FindIterFrom(t, p) ==
    IF p >= Len(t) THEN <<>>
    ELSE Let(MatchAt(t, p), LAMBDA m :
           IF m = {} THEN FindIterFrom(t, p + 1)
           ELSE Let(CHOOSE x \in m : TRUE, LAMBDA e :
                  <<Slice(t, p, e)>> \o FindIterFrom(t, e)))

FindIter(t) == FindIterFrom(t, 0)

Patterns == {"cl100k", "("}

\* Regex::new(pattern)
RegexNew(pattern) == IF pattern = "cl100k" THEN Ok(pattern) ELSE Err("regex parse error")

\* special_regex.find_from_pos(t, start): the pattern is the special-token
\* literals, escaped and joined with "|".  With no literal it is the empty
\* pattern, which matches the empty string where the search starts.  The
\* tables of the model hold no empty literal and no two literals that match at
\* one position, so the order of the alternatives does not show.
LiteralAt(t, p, lit) == p + Len(lit) <= Len(t) /\ Slice(t, p, p + Len(lit)) = lit

SpecialFind(special_tokens_encoder, t, start) ==
    IF DOMAIN special_tokens_encoder = {}
    THEN {[start |-> start, end |-> start, lit |-> <<>>]}
    ELSE LET hits == {p \in start..Len(t) :
                        \E lit \in DOMAIN special_tokens_encoder : LiteralAt(t, p, lit)}
         IN IF hits = {} THEN {}
            ELSE LET p == CHOOSE q \in hits : \A r \in hits : q <= r
                     lit == CHOOSE l \in DOMAIN special_tokens_encoder : LiteralAt(t, p, l)
                 IN {[start |-> p, end |-> p + Len(lit), lit |-> lit]}

\* ------------------------------------------------------------------ CoreBPE
Range(f) == {f[x] : x \in DOMAIN f}

\* The sorted copy of a set of byte sequences.
RECURSIVE SortBytes(_)
SortBytes(keys) ==
    IF keys = {} THEN <<>>
    ELSE LET m == CHOOSE k \in keys : \A o \in keys \ {k} : BytesLess(k, o)
         IN <<m>> \o SortBytes(keys \ {m})

\* CoreBPE::new
CoreBPE_new(encoder, special_tokens_encoder, pattern) ==
    IF ~IsOk(RegexNew(pattern)) THEN RegexNew(pattern)
    ELSE IF Cardinality(DOMAIN encoder) # Cardinality(Range(encoder)) THEN Panic
    ELSE Ok([encoder |-> encoder,
             special_tokens_encoder |-> special_tokens_encoder,
             decoder |-> [r \in Range(encoder) |->
                            CHOOSE k \in DOMAIN encoder : encoder[k] = r],
             special_tokens_decoder |->
                 [r \in Range(special_tokens_encoder) |->
                    AsBytes(CHOOSE k \in DOMAIN special_tokens_encoder :
                              special_tokens_encoder[k] = r)],
             regex |-> pattern,
             sorted_token_bytes |-> SortBytes(DOMAIN encoder)])

\* _decode_native
RECURSIVE DecodeFrom(_, _, _)
DecodeFrom(bpe, tokens, ret) ==
    IF tokens = <<>> THEN Ok(ret)
    ELSE Let(Head(tokens), LAMBDA token :
           IF token \in DOMAIN bpe.decoder
           THEN Let(ret \o bpe.decoder[token], LAMBDA extended :
                  DecodeFrom(bpe, Tail(tokens), extended))
           ELSE IF token \in DOMAIN bpe.special_tokens_decoder
           THEN Let(ret \o bpe.special_tokens_decoder[token], LAMBDA extended :
                  DecodeFrom(bpe, Tail(tokens), extended))
           ELSE Panic)

decode_native(bpe, tokens) == DecodeFrom(bpe, tokens, <<>>)

\* The loop over the pieces of one ordinary stretch, shared by
\* _encode_ordinary_native and _encode_native: Ok([ret, last_piece_token_len]).
RECURSIVE EncodePieces(_, _, _, _)
EncodePieces(bpe, pieces, ret, last_piece_token_len) ==
    IF pieces = <<>> THEN Ok([ret |-> ret, last_piece_token_len |-> last_piece_token_len])
    ELSE Let(AsBytes(Head(pieces)), LAMBDA piece :
           IF piece \in DOMAIN bpe.encoder
           THEN Let(Append(ret, bpe.encoder[piece]), LAMBDA pushed :
                  EncodePieces(bpe, Tail(pieces), pushed, 1))
           ELSE Let(byte_pair_encode(piece, bpe.encoder), LAMBDA tokens :
                  IF ~IsOk(tokens) THEN Panic
                  ELSE Let(ret \o tokens.val, LAMBDA extended :
                         EncodePieces(bpe, Tail(pieces), extended, Len(tokens.val)))))

\* _encode_ordinary_native
encode_ordinary_native(bpe, text) ==
    Let(FindIter(text), LAMBDA pieces :
      Let(EncodePieces(bpe, pieces, <<>>, 0), LAMBDA r :
        IF IsOk(r) THEN Ok(r.val.ret) ELSE Panic))

\* EncodeLoop without `last_piece_token_len = 0` after a special token.
RECURSIVE EncodeLoopNoReset(_, _, _, _, _)
EncodeLoopNoReset(bpe, text, start, ret, last_piece_token_len) ==
    Let(SpecialFind(bpe.special_tokens_encoder, text, start), LAMBDA next_special :
      Let(IF next_special = {} THEN Len(text) ELSE (CHOOSE x \in next_special : TRUE).start,
          LAMBDA end :
        Let(FindIter(Slice(text, start, end)), LAMBDA pieces :
          Let(EncodePieces(bpe, pieces, ret, last_piece_token_len), LAMBDA r :
            IF ~IsOk(r) THEN Panic
            ELSE IF next_special = {} THEN r
            ELSE Let(CHOOSE x \in next_special : TRUE, LAMBDA m :
                   IF m.lit \notin DOMAIN bpe.special_tokens_encoder THEN Panic
                   ELSE Let(Append(r.val.ret, bpe.special_tokens_encoder[m.lit]),
                            LAMBDA pushed :
                              EncodeLoopNoReset(bpe, text, m.end, pushed,
                                                r.val.last_piece_token_len)))))))

\* _encode_native: the loop from `start`.
RECURSIVE EncodeLoop(_, _, _, _, _)
EncodeLoop(bpe, text, start, ret, last_piece_token_len) ==
    Let(SpecialFind(bpe.special_tokens_encoder, text, start), LAMBDA next_special :
      Let(IF next_special = {} THEN Len(text) ELSE (CHOOSE x \in next_special : TRUE).start,
          LAMBDA end :
        Let(FindIter(Slice(text, start, end)), LAMBDA pieces :
          Let(EncodePieces(bpe, pieces, ret, last_piece_token_len), LAMBDA r :
            IF ~IsOk(r) THEN Panic
            ELSE IF next_special = {} THEN r
            ELSE Let(CHOOSE x \in next_special : TRUE, LAMBDA m :
                   IF m.lit \notin DOMAIN bpe.special_tokens_encoder THEN Panic
                   ELSE Let(Append(r.val.ret, bpe.special_tokens_encoder[m.lit]),
                            LAMBDA pushed : EncodeLoop(bpe, text, m.end, pushed, 0)))))))

encode_native(bpe, text) == EncodeLoop(bpe, text, 0, <<>>, 0)

\* CoreBPE::encode
encode(bpe, text) ==
    Let(encode_native(bpe, text), LAMBDA r : IF IsOk(r) THEN Ok(r.val.ret) ELSE Panic)

\* CoreBPE::decode
decode(bpe, tokens) == decode_native(bpe, tokens)


\* -------------------------------------------------- unstable-suffix resolver
\* token_is_all_space with unwrap_or(true): a rank the ordinary decoder does
\* not hold counts as whitespace.
TokenIsAllSpaceOrUnknown(bpe, token) ==
    token \in DOMAIN bpe.decoder
    => \A i \in DOMAIN bpe.decoder[token] :
          bpe.decoder[token][i] \in {Ch.space, Ch.lf, Ch.tab}

\* token_is_all_space: only ranks of the ordinary decoder qualify.
TokenIsAllSpace(bpe, token) ==
    /\ token \in DOMAIN bpe.decoder
    /\ \A i \in DOMAIN bpe.decoder[token] :
          bpe.decoder[token][i] \in {Ch.space, Ch.lf, Ch.tab}

RECURSIVE ExtendOverSpace(_, _, _)
ExtendOverSpace(bpe, tokens, last_piece_token_len) ==
    IF last_piece_token_len < Len(tokens)
       /\ TokenIsAllSpace(bpe, At(tokens, Len(tokens) - last_piece_token_len - 1))
    THEN ExtendOverSpace(bpe, tokens, last_piece_token_len + 1)
    ELSE last_piece_token_len

\* _increase_last_piece_token_len
increase_last_piece_token_len(bpe, tokens, last_piece_token_len) ==
    IF last_piece_token_len > 0
       /\ TokenIsAllSpace(bpe, At(tokens, Len(tokens) - last_piece_token_len))
    THEN ExtendOverSpace(bpe, tokens, last_piece_token_len)
    ELSE last_piece_token_len

\* PartitionPoint with the predicate |x| x <= target: the first entry greater
\* than the target.
RECURSIVE PartitionPointAfter(_, _, _, _)
PartitionPointAfter(sorted, lo, hi, target) ==
    IF lo >= hi THEN lo
    ELSE LET mid == lo + (hi - lo) \div 2 IN
         IF ~BytesLess(target, At(sorted, mid))
         THEN PartitionPointAfter(sorted, mid + 1, hi, target)
         ELSE PartitionPointAfter(sorted, lo, mid, target)

\* slice::partition_point(|x| x < target) by binary search.
RECURSIVE PartitionPoint(_, _, _, _)
PartitionPoint(sorted, lo, hi, target) ==
    IF lo >= hi THEN lo
    ELSE LET mid == lo + (hi - lo) \div 2 IN
         IF BytesLess(At(sorted, mid), target)
         THEN PartitionPoint(sorted, mid + 1, hi, target)
         ELSE PartitionPoint(sorted, lo, mid, target)

\* The forward walk from `point` while the entries start with `prefix`.
RECURSIVE WalkPrefix(_, _, _)
WalkPrefix(sorted, point, prefix) ==
    IF point < Len(sorted) /\ StartsWith(At(sorted, point), prefix)
    THEN {At(sorted, point)} \cup WalkPrefix(sorted, point + 1, prefix)
    ELSE {}

PrefixMatches(bpe, prefix) ==
    WalkPrefix(bpe.sorted_token_bytes,
               PartitionPoint(bpe.sorted_token_bytes, 0, Len(bpe.sorted_token_bytes), prefix),
               prefix)

\* The single-token completions.
DirectCompletions(bpe, unstable_bytes) ==
    {<<bpe.encoder[k]>> : k \in PrefixMatches(bpe, unstable_bytes)}

\* The leading ranks of `encoded` whose bytes first reach `want` bytes.
RECURSIVE TakeUntilLen(_, _, _, _, _)
TakeUntilLen(bpe, encoded, seq, seq_len, want) ==
    IF encoded = <<>> THEN seq
    ELSE Let(seq_len + Len(bpe.decoder[Head(encoded)]), LAMBDA n :
           Let(Append(seq, Head(encoded)), LAMBDA pushed :
             IF n >= want THEN pushed
             ELSE TakeUntilLen(bpe, Tail(encoded), pushed, n, want)))

\* One candidate of the brute-force loop: the retokenised prefix ++ entry.
SplitCandidate(bpe, unstable_bytes, i, entry) ==
    Let(Slice(unstable_bytes, 0, i) \o entry, LAMBDA possibility :
      Let(FromUtf8(possibility), LAMBDA s :
        Let(IF s # {} THEN encode_ordinary_native(bpe, CHOOSE t \in s : TRUE)
            ELSE byte_pair_encode(possibility, bpe.encoder), LAMBDA encoded :
          IF IsOk(encoded)
          THEN Ok(TakeUntilLen(bpe, encoded.val, <<>>, 0, Len(unstable_bytes)))
          ELSE Panic)))

\* SplitCandidates with the loop over 1..len - 1, the last split left out.
SplitCandidatesShort(bpe, unstable_bytes) ==
    {SplitCandidate(bpe, unstable_bytes, i, entry) :
        <<i, entry>> \in
           {<<j, e>> \in (1..(Len(unstable_bytes) - 2)) \X DOMAIN bpe.encoder :
               e \in PrefixMatches(bpe, Slice(unstable_bytes, j, Len(unstable_bytes)))}}

\* The brute-force loop: for i in 1..unstable_bytes.len(), every entry that
\* starts with the suffix from i.
SplitCandidates(bpe, unstable_bytes) ==
    {SplitCandidate(bpe, unstable_bytes, i, entry) :
        <<i, entry>> \in
           {<<j, e>> \in (1..(Len(unstable_bytes) - 1)) \X DOMAIN bpe.encoder :
               e \in PrefixMatches(bpe, Slice(unstable_bytes, j, Len(unstable_bytes)))}}

\* The fix for a trailing whitespace character: {} or {Ok(ranks)} or {Panic}.
WhitespaceCandidate(bpe, unstable_bytes) ==
    Let(DecodeLastUtf8(unstable_bytes), LAMBDA last_decoded :
      Let(Len(unstable_bytes) - last_decoded.size, LAMBDA cut :
        IF Len(unstable_bytes) > 1 /\ cut > 0
           /\ last_decoded.ch # {} /\ \A c \in last_decoded.ch : IsSpace(c)
        THEN Let(byte_pair_encode(Slice(unstable_bytes, 0, cut), bpe.encoder), LAMBDA a :
               Let(byte_pair_encode(Slice(unstable_bytes, cut, Len(unstable_bytes)),
                                    bpe.encoder), LAMBDA b :
                 {IF IsOk(a) /\ IsOk(b) THEN Ok(a.val \o b.val) ELSE Panic}))
        ELSE {}))

UnstableResult(tokens, completions, unstable_bytes) ==
    Ok([tokens |-> tokens, completions |-> completions, unstable_bytes |-> unstable_bytes])

\* _encode_unstable_native.  The value carries the local unstable_bytes beside
\* the returned (tokens, completions).
encode_unstable_native(bpe, text) ==
    Let(encode_native(bpe, text), LAMBDA r :
      IF ~IsOk(r) THEN Panic
      ELSE IF r.val.last_piece_token_len = 0 THEN UnstableResult(r.val.ret, {}, <<>>)
      ELSE Let(r.val.ret, LAMBDA tokens :
        Let(Len(tokens)
            - increase_last_piece_token_len(bpe, tokens, r.val.last_piece_token_len),
            LAMBDA keep :
          Let(decode_native(bpe, Slice(tokens, keep, Len(tokens))), LAMBDA unstable :
            IF ~IsOk(unstable) THEN Panic
            ELSE IF unstable.val = <<>>
            THEN UnstableResult(Slice(tokens, 0, keep), {}, <<>>)
            ELSE Let(SplitCandidates(bpe, unstable.val)
                     \cup WhitespaceCandidate(bpe, unstable.val), LAMBDA cands :
                   IF \E c \in cands : ~IsOk(c) THEN Panic
                   ELSE UnstableResult(Slice(tokens, 0, keep),
                                       DirectCompletions(bpe, unstable.val)
                                       \cup {c.val : c \in cands},
                                       unstable.val))))))

\* CoreBPE::encode_with_unstable
encode_with_unstable(bpe, text) == encode_unstable_native(bpe, text)


\* ------------------------------------------------------------------- inputs
\* Vocabulary blobs.  FullBlob ranks every byte of the universe and some
\* merges; BytesBlob only the single bytes; NoEBlob lacks the byte 'e' but
\* keeps "ee"; DupRankBlob gives two byte sequences one rank; RekeyBlob holds
\* a blank line and a repeated key; the last three are malformed.
SingleByteRecs ==
    <<Rec(<<Ch.lf>>, 0), Rec(<<Ch.space>>, 1), Rec(<<Ch.lt>>, 2), Rec(<<Ch.e>>, 3),
      Rec(<<EAcuteBytes[1]>>, 4), Rec(<<EAcuteBytes[2]>>, 5)>>

MergeRecs ==
    <<Rec(<<Ch.e, Ch.e>>, 6), Rec(<<Ch.space, Ch.e>>, 7), Rec(<<Ch.space, Ch.space>>, 8),
      Rec(EAcuteBytes, 9), Rec(<<Ch.lf, Ch.lf>>, 10), Rec(<<Ch.space, Ch.e, Ch.e>>, 11),
      Rec(<<Ch.e, EAcuteBytes[1]>>, 12)>>

FullBlob == SingleByteRecs \o MergeRecs
BytesBlob == SingleByteRecs
NoEBlob == SubSeq(SingleByteRecs, 1, 3) \o SubSeq(SingleByteRecs, 5, 6) \o MergeRecs
DupRankBlob == SingleByteRecs \o <<Rec(<<Ch.e, Ch.e>>, 6), Rec(<<Ch.space, Ch.e>>, 6)>>
RekeyBlob == <<Rec(<<Ch.e>>, 30), BlankLine>> \o FullBlob
BadB64Blob == SingleByteRecs \o <<BadB64Rec(6)>>
BadRankBlob == SingleByteRecs \o <<BadRankRec(<<Ch.e, Ch.e>>)>>
NoSpaceBlob == SingleByteRecs \o <<NoSpaceLine>>

Blobs == {FullBlob, BytesBlob, NoEBlob, DupRankBlob, RekeyBlob, BadB64Blob, BadRankBlob,
          NoSpaceBlob}

\* Special-token lists (Vec<(String, u32)>): none, or the literal "<<".
SpecialLiteral == <<Ch.lt, Ch.lt>>
SpecialLists == {<<>>, <<<<SpecialLiteral, 20>>>>}

\* HashMap::from_iter over the list.
RECURSIVE FromIter(_, _)
FromIter(list, map) ==
    IF list = <<>> THEN map
    ELSE FromIter(Tail(list), Insert(map, Head(list)[1], Head(list)[2]))

\* Texts: up to n characters or special-token literals.
TextAtoms == {<<Ch.lf>>, <<Ch.space>>, <<Ch.lt>>, <<Ch.e>>, <<Ch.eacute>>, SpecialLiteral}
TextsUpTo(n) == UNION {{Concat(s) : s \in [1..k -> TextAtoms]} : k \in 0..n}

ContainsLiteral(text, lit) == \E p \in 0..Len(text) : LiteralAt(text, p, lit)

\* Rank sequences for decode: ranks of the vocabularies, the special rank and
\* 99, which no table of the model holds.
RankPool == {1, 3, 6, 20, 99}
RankSeqsUpTo(n) == UNION {[1..k -> RankPool] : k \in 0..n}

PiecesUpTo(n) == UNION {[1..k -> ByteUniverse] : k \in 1..n}


\* -------------------------------------------------------------------- state
VARIABLES
    registry,   \* TOKENIZERS: name -> TokenizerVariant
    resp,       \* the host call in flight: its request and its outcome
    core,       \* the outcome of constructing a codec
    call,       \* the last call on that codec: its input and its outcome
    mpiece,     \* byte_pair_encode's piece
    mranks,     \* byte_pair_encode's rank table
    parts,      \* _byte_pair_merge's parts vector
    mpc,        \* where byte_pair_encode is: "call", "loop" or "done"
    merges,     \* successful merge iterations so far
    mout        \* byte_pair_encode's outcome

hostVars == <<registry, resp>>
codecVars == <<core, call>>
mergeVars == <<mpiece, mranks, parts, mpc, merges, mout>>
vars == <<registry, resp, core, call, mpiece, mranks, parts, mpc, merges, mout>>

NoResp == [op |-> "none"]
NotBuilt == [kind |-> "none"]
NoCall == [op |-> "none"]

HostIdle == registry = EmptyMap /\ resp = NoResp
CodecIdle == core = NotBuilt /\ call = NoCall
MergeIdle ==
    /\ mpiece = <<>> /\ mranks = EmptyMap /\ parts = <<>>
    /\ mpc = "idle" /\ merges = 0 /\ mout = NotBuilt

\* ------------------------------------------------------------- merge engine
\* byte_pair_encode step by step: the call, each iteration of the loop of
\* _byte_pair_merge, and the exit that builds the output.
MergeVocabularies == {load_bpe(b).val : b \in {FullBlob, BytesBlob, NoEBlob}}

MergeInit ==
    /\ HostIdle /\ CodecIdle
    /\ mpiece \in PiecesUpTo(MaxPiece)
    /\ mranks \in MergeVocabularies
    /\ parts = <<>> /\ mpc = "call" /\ merges = 0 /\ mout = NotBuilt

BpeSingleByte ==
    /\ mpc = "call" /\ Len(mpiece) = 1
    /\ mout' = byte_pair_encode(mpiece, mranks)
    /\ mpc' = "done"
    /\ UNCHANGED <<mpiece, mranks, parts, merges, hostVars, codecVars>>

MergeStart ==
    /\ mpc = "call" /\ Len(mpiece) # 1
    /\ parts' = InitParts(mpiece, mranks)
    /\ mpc' = "loop"
    /\ UNCHANGED <<mpiece, mranks, merges, mout, hostVars, codecVars>>

MergeStep ==
    /\ mpc = "loop" /\ CanMerge(parts)
    /\ parts' = MergeAt(mpiece, mranks, parts, MinRank(parts)[2])
    /\ merges' = merges + 1
    /\ UNCHANGED <<mpiece, mranks, mpc, mout, hostVars, codecVars>>

MergeBreak ==
    /\ mpc = "loop" /\ ~CanMerge(parts)
    /\ mout' = MergeOutput(mpiece, mranks, parts)
    /\ mpc' = "done"
    /\ UNCHANGED <<mpiece, mranks, parts, merges, hostVars, codecVars>>

MergeNext == BpeSingleByte \/ MergeStart \/ MergeStep \/ MergeBreak

SpecMerge == MergeInit /\ [][MergeNext]_vars

\* -------------------------------------------------------------------- codec
\* construct(vocabulary_blob, special_tokens, pattern): load_bpe, then
\* CoreBPE::new, as load_tokenizer chains them.
construct(bpe, special_bpe, pattern) ==
    LET encoder == load_bpe(bpe) IN
    IF ~IsOk(encoder) THEN encoder
    ELSE CoreBPE_new(encoder.val, FromIter(special_bpe, EmptyMap), pattern)

CodecInit == HostIdle /\ MergeIdle /\ CodecIdle

Construct(bpe, special_bpe, pattern) ==
    /\ core = NotBuilt
    /\ core' = construct(bpe, special_bpe, pattern)
    /\ UNCHANGED <<call, hostVars, mergeVars>>

CodecEncode(text) ==
    /\ IsOk(core) /\ call = NoCall
    /\ call' = [op |-> "encode", text |-> text, tokens |-> <<>>, res |-> encode(core.val, text)]
    /\ UNCHANGED <<core, hostVars, mergeVars>>

CodecDecode(tokens) ==
    /\ IsOk(core) /\ call = NoCall
    /\ call' = [op |-> "decode", text |-> <<>>, tokens |-> tokens,
                res |-> decode(core.val, tokens)]
    /\ UNCHANGED <<core, hostVars, mergeVars>>

CodecEncodeWithUnstable(text) ==
    /\ IsOk(core) /\ call = NoCall
    /\ call' = [op |-> "encode_with_unstable", text |-> text, tokens |-> <<>>,
                res |-> encode_with_unstable(core.val, text)]
    /\ UNCHANGED <<core, hostVars, mergeVars>>

CodecNext ==
    \/ \E b \in Blobs, sp \in SpecialLists, pat \in Patterns : Construct(b, sp, pat)
    \/ \E t \in TextsUpTo(MaxChars) : CodecEncode(t)
    \/ \E ts \in RankSeqsUpTo(MaxTokens) : CodecDecode(ts)
    \/ \E t \in TextsUpTo(MaxChars) : CodecEncodeWithUnstable(t)

SpecCodec == CodecInit /\ [][CodecNext]_vars


\* --------------------------------------------------------------------- host
\* The component interface of lib.rs over the thread-local TOKENIZERS map.
\* A request is the deserialized message, or one that does not deserialize.
Names == {"t1", "t2"}

\* A name field whose bytes are not UTF-8, and String::from_utf8 over the name
\* bytes of a request: {} for Err, {name} for Ok.
InvalidUtf8Name == "not utf-8"
RequestNames == Names \cup {InvalidUtf8Name}
NameFromUtf8(name) == IF name = InvalidUtf8Name THEN {} ELSE {name}

\* u32::to_le_bytes, and u32::from_le_bytes over input.chunks(4): a last chunk
\* of fewer than four bytes makes try_into().unwrap() panic.
ToLeBytes(x) == <<x % 256, (x \div 256) % 256, (x \div 65536) % 256, (x \div 16777216) % 256>>

LeBytesOf(tokens) == Concat([i \in DOMAIN tokens |-> ToLeBytes(tokens[i])])

RECURSIVE FromLeChunks(_)
FromLeChunks(input) ==
    IF input = <<>> THEN Ok(<<>>)
    ELSE IF Len(input) < 4 THEN Panic
    ELSE Let(FromLeChunks(SubSeq(input, 5, Len(input))), LAMBDA rest :
           IF IsOk(rest)
           THEN Ok(<<input[1] + 256 * input[2] + 65536 * input[3] + 16777216 * input[4]>>
                   \o rest.val)
           ELSE Panic)

Garbage == [ok |-> FALSE]
LoadTiktoken(name, bpe, special_bpe, regex) ==
    [ok |-> TRUE, name |-> name, variant |-> "tiktoken", bpe |-> bpe,
     special_bpe |-> special_bpe, regex |-> regex]
LoadHuggingface(name, model) ==
    [ok |-> TRUE, name |-> name, variant |-> "hf", model |-> model]
CallInput(name, input, special_tokens) ==
    [ok |-> TRUE, name |-> name, input |-> input, special_tokens |-> special_tokens]

TokenizerTiktoken(bpe) == [variant |-> "tiktoken", bpe |-> bpe]
TokenizerHuggingface(model) == [variant |-> "hf", model |-> model]

\* Tokenizer::from_bytes of the delegate library: a model blob it accepts, or
\* one it rejects.
HfModels == {"model", "not a model"}

\* A handler's effect: the registry after it and what the caller gets.
Effect(reg, res) == [registry |-> reg, res |-> res]

\* load_tokenizer: the tokenizer is built first; String::from_utf8(input.name)
\* .unwrap() is evaluated as the argument of insert.
load_tokenizer(reg, input) ==
    IF ~input.ok THEN Effect(reg, Err("deserialize"))
    ELSE IF input.variant = "tiktoken"
    THEN Let(construct(input.bpe, input.special_bpe, input.regex), LAMBDA tokenizer :
           IF ~IsOk(tokenizer) THEN Effect(reg, tokenizer)
           ELSE IF NameFromUtf8(input.name) = {} THEN Effect(reg, Panic)
           ELSE Effect(Insert(reg, input.name, TokenizerTiktoken(tokenizer.val)), Ok(0)))
    ELSE IF input.model # "model" THEN Effect(reg, Err("from_bytes"))
    ELSE IF NameFromUtf8(input.name) = {} THEN Effect(reg, Panic)
    ELSE Effect(Insert(reg, input.name, TokenizerHuggingface(input.model)), Ok(0))

\* unload_tokenizer: the input is the name's bytes.
unload_tokenizer(reg, input) ==
    IF NameFromUtf8(input) = {} THEN Effect(reg, Panic)
    ELSE Effect([n \in DOMAIN reg \ {input} |-> reg[n]], Ok(0))

\* encode.  hf is what the delegate library returns when the tokenizer is
\* its own.
host_encode(reg, input, hf) ==
    IF ~input.ok THEN Effect(reg, Err("deserialize"))
    ELSE IF NameFromUtf8(input.name) = {} THEN Effect(reg, Panic)
    ELSE IF input.name \notin DOMAIN reg THEN Effect(reg, Err("Tokenizer not found"))
    ELSE IF FromUtf8(input.input) = {} THEN Effect(reg, Panic)
    ELSE IF reg[input.name].variant = "tiktoken"
    THEN Let(encode(reg[input.name].bpe, CHOOSE t \in FromUtf8(input.input) : TRUE),
             LAMBDA result :
           Effect(reg, IF IsOk(result) THEN Ok(LeBytesOf(result.val)) ELSE Panic))
    ELSE Effect(reg, hf)

\* decode
host_decode(reg, input, hf) ==
    IF ~input.ok THEN Effect(reg, Err("deserialize"))
    ELSE IF NameFromUtf8(input.name) = {} THEN Effect(reg, Panic)
    ELSE IF input.name \notin DOMAIN reg THEN Effect(reg, Err("Tokenizer not found"))
    ELSE Let(FromLeChunks(input.input), LAMBDA tokens :
           IF ~IsOk(tokens) THEN Effect(reg, Panic)
           ELSE IF reg[input.name].variant = "tiktoken"
           THEN Effect(reg, decode(reg[input.name].bpe, tokens.val))
           ELSE Effect(reg, hf))

HfOutcomes == {Ok(<<>>), Err("delegate")}
SpecialTokensFlags == {"None", "Some(true)", "Some(false)"}

\* The requests of the model.
HostBlobs == {FullBlob, DupRankBlob, BadB64Blob, BadRankBlob, NoSpaceBlob}
LoadInputs ==
    {Garbage}
    \cup {LoadTiktoken(n, b, sp, pat) :
            n \in RequestNames, b \in HostBlobs, sp \in SpecialLists, pat \in Patterns}
    \cup {LoadHuggingface(n, m) : n \in RequestNames, m \in HfModels}
EncodeInputs ==
    {Garbage}
    \cup {CallInput(n, i, f) :
            n \in RequestNames,
            i \in {AsBytes(t) : t \in TextsUpTo(HostMaxChars)} \cup {<<EAcuteBytes[2]>>},
            f \in SpecialTokensFlags}
DecodeInputs ==
    {Garbage}
    \cup {CallInput(n, i, f) :
            n \in RequestNames,
            i \in {LeBytesOf(ts) : ts \in RankSeqsUpTo(MaxTokens)} \cup {<<1, 0, 0>>},
            f \in SpecialTokensFlags}

LoadTokenizer(input) ==
    /\ resp = NoResp
    /\ registry' = load_tokenizer(registry, input).registry
    /\ resp' = [op |-> "load_tokenizer", input |-> input, before |-> registry,
                res |-> load_tokenizer(registry, input).res]
    /\ UNCHANGED <<codecVars, mergeVars>>

UnloadTokenizer(name) ==
    /\ resp = NoResp
    /\ registry' = unload_tokenizer(registry, name).registry
    /\ resp' = [op |-> "unload_tokenizer", input |-> name, before |-> registry,
                res |-> unload_tokenizer(registry, name).res]
    /\ UNCHANGED <<codecVars, mergeVars>>

Encode(input, hf) ==
    /\ resp = NoResp
    /\ registry' = host_encode(registry, input, hf).registry
    /\ resp' = [op |-> "encode", input |-> input, before |-> registry,
                res |-> host_encode(registry, input, hf).res]
    /\ UNCHANGED <<codecVars, mergeVars>>

Decode(input, hf) ==
    /\ resp = NoResp
    /\ registry' = host_decode(registry, input, hf).registry
    /\ resp' = [op |-> "decode", input |-> input, before |-> registry,
                res |-> host_decode(registry, input, hf).res]
    /\ UNCHANGED <<codecVars, mergeVars>>

\* The caller takes the response; the component is ready for the next call.
Respond ==
    /\ resp # NoResp
    /\ resp' = NoResp
    /\ UNCHANGED <<registry, codecVars, mergeVars>>

Init == HostIdle /\ CodecIdle /\ MergeIdle

Next ==
    \/ \E input \in LoadInputs : LoadTokenizer(input)
    \/ \E name \in RequestNames : UnloadTokenizer(name)
    \/ \E input \in EncodeInputs, hf \in HfOutcomes : Encode(input, hf)
    \/ \E input \in DecodeInputs, hf \in HfOutcomes : Decode(input, hf)
    \/ Respond

Spec == Init /\ [][Next]_vars

\* ------------------------------------------------------------------- claims
TotalByteCoverage(bpe) == \A b \in ByteUniverse : <<b>> \in DOMAIN bpe.encoder

NoSpecialLiteral(bpe, text) ==
    \A lit \in DOMAIN bpe.special_tokens_encoder : ~ContainsLiteral(text, lit)

IsPrefix(p, s) == StartsWith(s, p)

\* C1: round trip.  For a codec whose vocabulary holds every single byte and a
\* text with no special-token literal in it, encode returns and decoding its
\* ranks gives back the bytes of the text.  Checked under SpecCodec.
C1_RoundTrip ==
    (call.op = "encode" /\ TotalByteCoverage(core.val)
     /\ NoSpecialLiteral(core.val, call.text))
    => (IsOk(call.res) /\ decode(core.val, call.res.val) = Ok(AsBytes(call.text)))

\* The round trip where the special-token table is not empty (the case the
\* empty pattern of C3 does not reach).
RoundTripWithSpecials ==
    (call.op = "encode" /\ TotalByteCoverage(core.val)
     /\ DOMAIN core.val.special_tokens_encoder # {}
     /\ NoSpecialLiteral(core.val, call.text))
    => (IsOk(call.res) /\ decode(core.val, call.res.val) = Ok(AsBytes(call.text)))

\* What C2 asks of a returned (tokens, completions) and its unstable bytes.
UnstableConsistent(bpe, text, r) ==
    /\ IsOk(decode(bpe, r.tokens))
    /\ IsOk(encode(bpe, text))
    /\ Ok(decode(bpe, r.tokens).val \o r.unstable_bytes)
          = decode(bpe, encode(bpe, text).val)
    /\ \A c \in r.completions :
          /\ IsOk(decode(bpe, c))
          /\ IsPrefix(r.unstable_bytes, decode(bpe, c).val)

\* C2: unstable-suffix consistency.  For a codec whose vocabulary holds every
\* single byte and any text, encode_with_unstable returns
\* (stable_ranks, completions), decode(stable_ranks) ++ unstable_bytes is
\* decode(encode(text)), and every completion decodes to bytes that start
\* with unstable_bytes.  Checked under SpecCodec.
C2_UnstableConsistency ==
    (call.op = "encode_with_unstable" /\ TotalByteCoverage(core.val))
    => (IsOk(call.res) /\ UnstableConsistent(core.val, call.text, call.res.val))

\* The same where the special-token table is not empty, and whenever the call
\* returns.
UnstableConsistencyWithSpecials ==
    (call.op = "encode_with_unstable" /\ TotalByteCoverage(core.val)
     /\ DOMAIN core.val.special_tokens_encoder # {})
    => (IsOk(call.res) /\ UnstableConsistent(core.val, call.text, call.res.val))

UnstableConsistencyWhenReturned ==
    (call.op = "encode_with_unstable" /\ IsOk(call.res))
    => UnstableConsistent(core.val, call.text, call.res.val)

\* C3: with an empty special-token table the special-token pattern never
\* matches, so encode returns, and returns the ranks of encode_ordinary.
\* Checked under SpecCodec.
C3_EmptyTableEncodesOrdinary ==
    (call.op = "encode" /\ DOMAIN core.val.special_tokens_encoder = {})
    => (IsOk(call.res) /\ call.res = encode_ordinary_native(core.val, call.text))

\* Some byte of the text has no entry of its own in the vocabulary.
LacksByteOf(bpe, text) ==
    \E i \in DOMAIN AsBytes(text) : <<AsBytes(text)[i]>> \notin DOMAIN bpe.encoder

C7_WitnessFatal ==
    /\ call.op = "encode" /\ LacksByteOf(core.val, call.text)
    /\ DOMAIN core.val.special_tokens_encoder # {}
    /\ call.res = Panic

\* C8: with every single byte in the vocabulary, a result of
\* encode_with_unstable with unstable bytes has a completion.  Checked under
\* SpecCodec.
C8_CompletionsNonEmpty ==
    (call.op = "encode_with_unstable" /\ TotalByteCoverage(core.val)
     /\ IsOk(call.res) /\ call.res.val.unstable_bytes # <<>>)
    => call.res.val.completions # {}

\* C8's case: a text ending in the middle of a word whose unstable bytes are
\* more than one token and no vocabulary entry starts with them.
C8_Witness ==
    /\ call.op = "encode_with_unstable" /\ TotalByteCoverage(core.val)
    /\ IsOk(call.res)
    /\ call.text # <<>> /\ IsLetter(call.text[Len(call.text)])
    /\ Len(call.res.val.unstable_bytes) > 1
    /\ DirectCompletions(core.val, call.res.val.unstable_bytes) = {}
    /\ call.res.val.completions # {}

\* The request in flight names a tokenizer of the codec kind that was loaded
\* when the call came.
OnTiktoken ==
    /\ resp.input.ok
    /\ resp.input.name \in DOMAIN resp.before
    /\ resp.before[resp.input.name].variant = "tiktoken"

TextOf(input) == CHOOSE t \in FromUtf8(input) : TRUE

\* C4: encode takes a recognize_special flag; with the flag false it emits no
\* special-token rank and returns the ranks of encode_ordinary, also for a
\* text that holds a special-token literal.  Checked under Spec.
C4_FlagFalseEncodesOrdinary ==
    (resp.op = "encode" /\ OnTiktoken /\ resp.input.special_tokens = "Some(false)"
     /\ IsOk(resp.res))
    => /\ IsOk(encode_ordinary_native(resp.before[resp.input.name].bpe,
                                      TextOf(resp.input.input)))
       /\ resp.res.val
             = LeBytesOf(encode_ordinary_native(resp.before[resp.input.name].bpe,
                                                TextOf(resp.input.input)).val)

UnknownRank(bpe, tokens) ==
    \E i \in DOMAIN tokens :
        tokens[i] \notin DOMAIN bpe.decoder \cup DOMAIN bpe.special_tokens_decoder

\* C5: decode of ranks with one that neither decoder holds fails with an
\* error returned to the caller (a typed result, not a fault) and returns no
\* partial output.  Checked under Spec.
C5_UnknownRankIsTypedError ==
    (resp.op = "decode" /\ OnTiktoken /\ IsOk(FromLeChunks(resp.input.input))
     /\ UnknownRank(resp.before[resp.input.name].bpe, FromLeChunks(resp.input.input).val))
    => resp.res.kind = "err"

DuplicateRanks(encoder) == Cardinality(Range(encoder)) < Cardinality(DOMAIN encoder)

\* C6: construction from a vocabulary in which two byte sequences share a
\* rank returns a construction failure to the caller and registers nothing.
\* Checked under Spec.
C6_DuplicateRanksIsLoadError ==
    (resp.op = "load_tokenizer" /\ resp.input.ok /\ resp.input.variant = "tiktoken"
     /\ IsOk(load_bpe(resp.input.bpe)) /\ DuplicateRanks(load_bpe(resp.input.bpe).val))
    => (resp.res.kind = "err" /\ registry = resp.before)

Without(reg, name) == [n \in DOMAIN reg \ {name} |-> reg[n]]

\* The registry changes only by a load that succeeds and by unload.
RegistryFrame ==
    resp # NoResp
    => \/ registry = resp.before
       \/ /\ resp.op = "load_tokenizer" /\ IsOk(resp.res)
          /\ resp.input.name \in DOMAIN registry
          /\ Without(registry, resp.input.name) = Without(resp.before, resp.input.name)
       \/ /\ resp.op = "unload_tokenizer"
          /\ registry = Without(resp.before, resp.input)

FailedLoadUnchanged ==
    (resp.op = "load_tokenizer" /\ ~IsOk(resp.res)) => registry = resp.before

AbsentNameIsError ==
    (resp.op \in {"encode", "decode"} /\ resp.input.ok
     /\ resp.input.name \notin DOMAIN resp.before)
    => (resp.res = Err("Tokenizer not found") /\ registry = resp.before)

\* C10: the registry changes only by a load that succeeds and by unload; a
\* load that fails leaves it unchanged with the name not registered; encode
\* or decode naming an absent tokenizer returns an error and leaves it
\* unchanged.  Checked under Spec.
C10_RegistryChangesOnlyByLoadAndUnload ==
    /\ RegistryFrame
    /\ FailedLoadUnchanged
    /\ (resp.op = "load_tokenizer" /\ ~IsOk(resp.res) /\ resp.input.ok)
          => resp.input.name \notin DOMAIN registry
    /\ AbsentNameIsError

\* C9: in byte_pair_encode of a non-empty piece every successful merge
\* iteration takes exactly one part away, there are at most len(piece) - 1 of
\* them before the loop stops, and no more ranks than bytes are returned.
\* Checked under SpecMerge.
C9_MergeMonotone ==
    /\ mpc = "loop" => (Len(parts) - 1 = Len(mpiece) - merges /\ Len(parts) - 1 >= 1)
    /\ merges <= Len(mpiece) - 1
    /\ (mpc = "loop" /\ merges = Len(mpiece) - 1) => ~CanMerge(parts)
    /\ (mpc = "done" /\ IsOk(mout)) => (Len(mout.val) <= Len(mpiece) /\ Len(mout.val) >= 1)

\* C9's case: a piece of three bytes or more merged down to one part.
C9_Witness ==
    /\ mpc = "done" /\ IsOk(mout)
    /\ Len(mpiece) >= 3 /\ merges = Len(mpiece) - 1 /\ Len(mout.val) = 1

\* The start offsets of a parts vector, and the vocabulary rank of the pair of
\* adjacent parts j, j + 1 of it: {} where their bytes are no vocabulary key.
Starts(ps) == [k \in DOMAIN ps |-> ps[k][1]]

PairRank(piece, ranks, ps, j) ==
    LET key == Slice(piece, At(ps, j)[1], At(ps, j + 2)[1])
    IN IF key \in DOMAIN ranks THEN {ranks[key]} ELSE {}

Pairs(ps) == 0..(Len(ps) - 3)

\* The pair that a merge iteration from ps to qs merged: the i whose right
\* boundary is gone.
MergedPairs(ps, qs) == {i \in Pairs(ps) : Starts(qs) = Starts(RemoveAt(ps, i + 1))}

\* C11: every merge iteration merges the adjacent pair with the smallest
\* vocabulary rank among all current pairs, and of several pairs with that
\* rank the leftmost.  Checked under SpecMerge.
C11_MergesLeftmostSmallest ==
    [][(mpc = "loop" /\ merges' = merges + 1)
       => \E i \in MergedPairs(parts, parts') :
            /\ PairRank(mpiece, mranks, parts, i) # {}
            /\ \A j \in Pairs(parts), r \in PairRank(mpiece, mranks, parts, i) :
                  \A q \in PairRank(mpiece, mranks, parts, j) :
                    /\ r <= q
                    /\ (j < i => r < q)]_vars

\* C11's case: the first two pairs of a piece of three bytes or more share the
\* smallest rank and the first merge took the left one.
C11_Witness ==
    /\ mpc = "loop" /\ merges = 1 /\ Len(mpiece) >= 3
    /\ LET ps == [k \in 1..(Len(mpiece) + 1) |-> <<k - 1, RANK_MAX>>]
       IN /\ PairRank(mpiece, mranks, ps, 0) # {}
          /\ PairRank(mpiece, mranks, ps, 0) = PairRank(mpiece, mranks, ps, 1)
          /\ \A j \in Pairs(ps), r \in PairRank(mpiece, mranks, ps, 0) :
                \A q \in PairRank(mpiece, mranks, ps, j) : r <= q
          /\ Starts(parts) = Starts(RemoveAt(ps, 1))

\* Where the left-to-right search for special tokens from `start` leaves the
\* cursor: after the last special token it recognizes, or at `start` when it
\* recognizes none.  For a table that is not empty.
RECURSIVE LastSpecialEnd(_, _, _)
LastSpecialEnd(special_tokens_encoder, t, start) ==
    LET hits == {p \in start..Len(t) :
                   \E lit \in DOMAIN special_tokens_encoder : LiteralAt(t, p, lit)}
    IN IF hits = {} THEN start
       ELSE LET p == CHOOSE q \in hits : \A r \in hits : q <= r
                lit == CHOOSE l \in DOMAIN special_tokens_encoder : LiteralAt(t, p, l)
            IN LastSpecialEnd(special_tokens_encoder, t, p + Len(lit))

\* The text ends exactly on a special token that encode recognizes.
EndsOnSpecial(bpe, text) ==
    /\ DOMAIN bpe.special_tokens_encoder # {}
    /\ text # <<>>
    /\ LastSpecialEnd(bpe.special_tokens_encoder, text, 0) = Len(text)

\* The number of ranks of the last ordinary piece after the last recognized
\* special token; 0 when no piece follows it.
LastPieceRanks(bpe, text) ==
    LET from == LastSpecialEnd(bpe.special_tokens_encoder, text, 0)
        pieces == FindIter(Slice(text, from, Len(text)))
    IN IF pieces = <<>> THEN 0
       ELSE LET piece == AsBytes(pieces[Len(pieces)])
            IN IF piece \in DOMAIN bpe.encoder THEN 1
               ELSE Len(byte_pair_encode(piece, bpe.encoder).val)

\* C12: encode's last_piece_token_len is the number of ranks of the most
\* recent ordinary piece and zero right after a special-token rank; for a text
\* that ends exactly on a recognized special token and that encode encodes,
\* encode_with_unstable returns all of encode(text) as stable tokens and no
\* completion.  Checked under SpecCodec.
C12_EndsOnSpecialAllStable ==
    (call.op = "encode_with_unstable" /\ DOMAIN core.val.special_tokens_encoder # {})
    => /\ IsOk(encode_native(core.val, call.text))
          => encode_native(core.val, call.text).val.last_piece_token_len
                = LastPieceRanks(core.val, call.text)
       /\ (EndsOnSpecial(core.val, call.text) /\ IsOk(encode(core.val, call.text)))
          => /\ LastPieceRanks(core.val, call.text) = 0
             /\ IsOk(call.res)
             /\ call.res.val.tokens = encode(core.val, call.text).val
             /\ call.res.val.completions = {}

\* C12's case: ordinary text of more than one rank, then a special token at
\* the end of the text.
C12_Witness ==
    /\ call.op = "encode_with_unstable" /\ IsOk(call.res)
    /\ EndsOnSpecial(core.val, call.text)
    /\ Len(call.res.val.tokens) >= 3
    /\ call.res.val.tokens[Len(call.res.val.tokens)]
          \in Range(core.val.special_tokens_encoder)
    /\ call.res.val.completions = {}

\* The single-token completions C13 describes: the rank of every vocabulary
\* key that starts with the bytes.
KeysStartingWith(bpe, bytes) ==
    {<<bpe.encoder[v]>> : v \in {k \in DOMAIN bpe.encoder : StartsWith(k, bytes)}}

\* C13: for unstable bytes that are not empty, the single-token completions
\* of the binary search and forward walk over sorted_token_bytes are exactly
\* the ranks of the vocabulary keys that start with the unstable bytes, a key
\* equal to them included; they are among the completions returned.  Checked
\* under SpecCodec, for the unstable bytes of every call and, on every codec
\* constructed, for every byte sequence of 1..MaxPiece bytes.
C13_DirectCompletionsExact ==
    /\ (IsOk(core) /\ call = NoCall)
       => \A bytes \in PiecesUpTo(MaxPiece) :
             DirectCompletions(core.val, bytes) = KeysStartingWith(core.val, bytes)
    /\ (call.op = "encode_with_unstable" /\ IsOk(call.res)
        /\ call.res.val.unstable_bytes # <<>>)
       => /\ DirectCompletions(core.val, call.res.val.unstable_bytes)
                = KeysStartingWith(core.val, call.res.val.unstable_bytes)
          /\ KeysStartingWith(core.val, call.res.val.unstable_bytes)
                \subseteq call.res.val.completions

\* C13's case: the unstable bytes are a vocabulary key themselves and a longer
\* key starts with them, while other keys do not.
C13_Witness ==
    /\ call.op = "encode_with_unstable" /\ IsOk(call.res)
    /\ call.res.val.unstable_bytes \in DOMAIN core.val.encoder
    /\ Cardinality(DirectCompletions(core.val, call.res.val.unstable_bytes)) >= 2
    /\ \E k \in DOMAIN core.val.encoder : ~StartsWith(k, call.res.val.unstable_bytes)

\* A rank of the ordinary decoder whose bytes are all space, tab or newline
\* and that is no special-token rank.
OrdinarySpaceToken(bpe, token) ==
    /\ token \in DOMAIN bpe.decoder
    /\ token \notin Range(bpe.special_tokens_encoder)
    /\ \A i \in DOMAIN bpe.decoder[token] :
          bpe.decoder[token][i] \in {Ch.space, Ch.tab, Ch.lf}

\* What C14 asks of the correction's result `after` for encode's
\* (tokens, last_piece_token_len).
CorrectionBounded(bpe, tokens, last_piece_token_len, after) ==
    /\ last_piece_token_len <= Len(tokens)
    /\ last_piece_token_len <= after
    /\ after <= Len(tokens)
    /\ after > last_piece_token_len
       => /\ last_piece_token_len > 0
          /\ \A k \in (Len(tokens) - after)..(Len(tokens) - last_piece_token_len) :
                OrdinarySpaceToken(bpe, At(tokens, k))

C14_WitnessStart ==
    /\ call.op = "encode_with_unstable" /\ IsOk(call.res)
    /\ LET r == encode_native(core.val, call.text).val
           after == increase_last_piece_token_len(core.val, r.ret, r.last_piece_token_len)
       IN after > r.last_piece_token_len /\ after = Len(r.ret)

\* A full rescan of a parts vector: the rank every part has to carry.  The
\* parts of pairs carry the rank of the pair's bytes, or u32::MAX where these
\* are no vocabulary key; the part in front of the last boundary carries
\* u32::MAX.
RanksMatchRescan(piece, ranks, ps) ==
    /\ \A j \in Pairs(ps) :
          At(ps, j)[2] = UnwrapOr(PairRank(piece, ranks, ps, j), RANK_MAX)
    /\ At(ps, Len(ps) - 2)[2] = RANK_MAX

\* The ranges of a parts vector are non-empty, contiguous, in left-to-right
\* order and cover the piece.
RangesCover(piece, ps) ==
    LET rs == PartRanges(ps)
    IN /\ Len(rs) >= 1
       /\ rs[1][1] = 0
       /\ rs[Len(rs)][2] = Len(piece)
       /\ \A k \in DOMAIN rs : rs[k][1] < rs[k][2]
       /\ \A k \in 1..(Len(rs) - 1) : rs[k][2] = rs[k + 1][1]

\* No two adjacent ranges of a parts vector concatenate to a vocabulary key.
NoPairIsKey(piece, ranks, ps) ==
    \A j \in Pairs(ps) : PairRank(piece, ranks, ps, j) = {}

\* C15: the merge engine's incrementally updated ranks equal a full rescan
\* after initialisation and after every merge; when the loop has stopped, the
\* output ranges are contiguous, in left-to-right order, cover the whole piece,
\* no two adjacent ones concatenate to a vocabulary key, and the ranks returned
\* are those of the ranges in that order.  Checked under SpecMerge.
C15_RanksEqualRescan ==
    /\ mpc = "loop"
       => /\ RanksMatchRescan(mpiece, mranks, parts)
          /\ RangesCover(mpiece, parts)
    /\ (mpc = "done" /\ Len(mpiece) # 1)
       => /\ RangesCover(mpiece, parts)
          /\ NoPairIsKey(mpiece, mranks, parts)
          /\ IsOk(mout)
             => mout.val = [k \in 1..(Len(parts) - 1) |->
                              mranks[Slice(mpiece, parts[k][1], parts[k + 1][1])]]

\* C15's case: the merged pair was not the leftmost, so the rank of its left
\* neighbour was recomputed, and the loop stopped with two output ranges.
C15_Witness ==
    /\ mpc = "done" /\ IsOk(mout)
    /\ merges = 1
    /\ Starts(parts) = <<0, 1, 3>>

\* The left neighbour of a merged pair took the rank of a three-byte key.
C15_WitnessLeftRank ==
    /\ mpc = "loop" /\ merges = 1
    /\ Starts(parts) = <<0, 1, 3>>
    /\ parts[1][2] # RANK_MAX

=============================================================================
